---- MODULE Spec2Model ----
(***************************************************************************)
(* A model of the recursive validation engine of valty                     *)
(* (src/validators/validateObject.ts): validatePrimitiveField,             *)
(* validateArrayField, validateObjectField, validateObject and             *)
(* isArrayValidationRule, evaluated over a small universe of JavaScript    *)
(* values (data objects, rule-sets, rule functions and rule builders).     *)
(***************************************************************************)
EXTENDS Integers, Sequences, FiniteSets, TLC

VARIABLES object, root, rule, op, arg, out

vars == <<object, root, rule, op, arg, out>>

(***************************************************************************)
(* Bounds of the model.                                                    *)
(***************************************************************************)
\* longest generated primitive rule list
MaxRules == 2
\* longest generated array value
MaxElems == 2

(***************************************************************************)
(* JavaScript values.  Every value is a record tagged by t.  An object     *)
(* keeps its own enumerable properties in insertion order.                 *)
(***************************************************************************)
Undefined == [t |-> "undefined"]
Null == [t |-> "null"]
Str(s) == [t |-> "string", s |-> s]
Num(n) == [t |-> "number", n |-> n]
Bool(b) == [t |-> "boolean", b |-> b]
Arr(elems) == [t |-> "array", elems |-> elems]
Obj(props) == [t |-> "object", props |-> props]
Fn(id) == [t |-> "function", id |-> id]
Prop(k, v) == [k |-> k, v |-> v]

\* a variant of typeof that tells null from the objects
TypeOf_nullApart(v) ==
    CASE v.t = "undefined" -> "undefined"
      [] v.t = "null" -> "null"
      [] v.t = "array" -> "object"
      [] v.t = "object" -> "object"
      [] v.t = "string" -> "string"
      [] v.t = "number" -> "number"
      [] v.t = "boolean" -> "boolean"
      [] v.t = "function" -> "function"

\* typeof v
TypeOf(v) ==
    CASE v.t = "undefined" -> "undefined"
      [] v.t = "null" -> "object"
      [] v.t = "array" -> "object"
      [] v.t = "object" -> "object"
      [] v.t = "string" -> "string"
      [] v.t = "number" -> "number"
      [] v.t = "boolean" -> "boolean"
      [] v.t = "function" -> "function"

\* ToBoolean(v), as used by if (v) and if (!v)
Truthy(v) ==
    CASE v.t = "undefined" -> FALSE
      [] v.t = "null" -> FALSE
      [] v.t = "string" -> v.s # ""
      [] v.t = "number" -> v.n # 0
      [] v.t = "boolean" -> v.b
      [] OTHER -> TRUE

\* Array.isArray(v)
IsArray(v) == v.t = "array"

\* the property name of array index i (1-based position i is index i - 1)
IndexKey(i) == ToString(i - 1)

\* Object.keys(v), and the keys for (key in v) visits with the hasOwnProperty
\* filter, for the values the engine enumerates: objects, arrays, functions
OwnKeys(v) ==
    CASE v.t = "object" -> [i \in 1..Len(v.props) |-> v.props[i].k]
      [] v.t = "array" -> [i \in 1..Len(v.elems) |-> IndexKey(i)]
      [] v.t = "function" -> <<>>
      [] v.t = "number" -> <<>>
      [] v.t = "boolean" -> <<>>

\* the property read v[k] on a value that is neither undefined nor null
Get(v, k) ==
    CASE v.t = "object" ->
            IF \E i \in 1..Len(v.props) : v.props[i].k = k
            THEN v.props[CHOOSE i \in 1..Len(v.props) : v.props[i].k = k].v
            ELSE Undefined
      [] v.t = "array" ->
            IF \E i \in 1..Len(v.elems) : IndexKey(i) = k
            THEN v.elems[CHOOSE i \in 1..Len(v.elems) : IndexKey(i) = k]
            ELSE Undefined
      [] OTHER -> Undefined

\* obj[k] = v on an object: a new key is appended, an old one keeps its place
Put(o, k, v) ==
    IF \E i \in 1..Len(o.props) : o.props[i].k = k
    THEN Obj([i \in 1..Len(o.props) |->
                IF o.props[i].k = k THEN Prop(k, v) ELSE o.props[i]])
    ELSE Obj(Append(o.props, Prop(k, v)))

(***************************************************************************)
(* Completion of a call: what it threw ("none" when it returned), what it  *)
(* returned, and the rule functions and builders it invoked, in order,     *)
(* each with the expression that was called (validateFunc, the field's     *)
(* rule, or arrayElementRule) and the two arguments it received.           *)
(***************************************************************************)
NoThrow == "none"
Return(v, calls) == [thrown |-> NoThrow, value |-> v, calls |-> calls]
Throw(e, calls) == [thrown |-> e, value |-> Undefined, calls |-> calls]
Call(at, f, value, r) == [at |-> at, f |-> f, value |-> value, root |-> r]

ErrNotFunction == "propertyRuleFunc is not a function"
ErrNoRule == "validant: validation rule is null or undefined."
ErrTypeError == "TypeError"
\* `${typeOfRule} is not a valid rule.`
ErrInvalidRule(r) ==
    CASE TypeOf(r) = "string" -> "string is not a valid rule."
      [] TypeOf(r) = "number" -> "number is not a valid rule."
      [] TypeOf(r) = "boolean" -> "boolean is not a valid rule."
      [] OTHER -> "undefined is not a valid rule."

(***************************************************************************)
(* The rule functions and rule builders the rule-sets of the model use.    *)
(* A rule function is (value, root) -> violation | nothing; a builder is   *)
(* (value, root) -> rule.  Both are plain functions to the engine, which   *)
(* tells them apart only by where they stand in a rule-set.                *)
(***************************************************************************)
MsgRequired == Str("This field is required.")
MsgNotString == Str("Not a string.")
MsgRootName == Str("The root has no name.")
MsgEmpty == Str("Product has to be at least having 1 price.")
MsgDuplicate == Str("Duplicate element.")

\* root?.name
RootName(r) == IF r.t \in {"undefined", "null"} THEN Undefined ELSE Get(r, "name")

\* the static element rule-set { name: [required] }
NameRequired == Obj(<<Prop("name", Arr(<<Fn("required")>>))>>)

\* f(value, root) for the function named id
Apply(id, value, r) ==
    CASE id = "required" ->
            IF value \in {Undefined, Null, Str("")} THEN MsgRequired ELSE Undefined
      [] id = "isString" ->
            IF TypeOf(value) # "string" THEN MsgNotString ELSE Undefined
      [] id = "rootHasName" ->
            IF ~Truthy(RootName(r)) THEN MsgRootName ELSE Undefined
      [] id = "falsy" ->
            \* a rule function whose return value is falsy but not undefined
            CASE value.t = "string" -> Str("")
              [] value.t = "undefined" -> Num(0)
              [] value.t = "null" -> Null
              [] OTHER -> Bool(FALSE)
      [] id = "requiredArray" ->
            IF ~IsArray(value) \/ Len(value.elems) = 0 THEN MsgRequired ELSE Undefined
      [] id = "nonEmpty" ->
            IF ~IsArray(value) \/ Len(value.elems) = 0 THEN MsgEmpty ELSE Undefined
      [] id = "noDuplicates" ->
            IF IsArray(value)
               /\ \E i, j \in 1..Len(value.elems) : i < j /\ value.elems[i] = value.elems[j]
            THEN MsgDuplicate ELSE Undefined
      [] id = "buildArrayRule" ->
            Obj(<<Prop("arrayRules", Arr(<<Fn("nonEmpty")>>)),
                  Prop("arrayElementRule", NameRequired)>>)
      [] id = "buildByRoot" ->
            IF Truthy(RootName(r))
            THEN Obj(<<Prop("arrayElementRule", NameRequired)>>)
            ELSE Obj(<<Prop("arrayRules", Arr(<<Fn("nonEmpty")>>))>>)
      [] id = "buildByValue" ->
            IF IsArray(value) /\ Len(value.elems) > 1
            THEN Obj(<<Prop("arrayRules", Arr(<<Fn("noDuplicates")>>))>>)
            ELSE Obj(<<Prop("arrayRules", Arr(<<Fn("nonEmpty")>>)),
                       Prop("arrayElementRule", NameRequired)>>)
      [] id = "buildPrimitive" -> Arr(<<Fn("required")>>)
      [] id = "buildNested" -> NameRequired
      [] id = "buildBuilder" -> Fn("buildArrayRule")
      [] id = "buildUndefined" -> Undefined
      [] id = "buildBadList" -> Obj(<<Prop("arrayRules", Arr(<<Str("x")>>))>>)
      [] id = "buildElementRule" ->
            IF Truthy(value) /\ Truthy(Get(value, "name"))
            THEN Obj(<<Prop("name", Arr(<<Fn("isString"), Fn("rootHasName")>>))>>)
            ELSE NameRequired

(***************************************************************************)
(* The engine.                                                             *)
(***************************************************************************)
\* rule.length as a loop bound: a value without length never enters the loop
LengthOf(v) == IF IsArray(v) THEN Len(v.elems) ELSE 0

\* a variant of isArrayValidationRule that is content with one allowed key
isArrayValidationRule_someKey(r) ==
    LET allowedKeys == {"arrayRules", "arrayElementRule"}
        keys == OwnKeys(r)
    IN \E i \in 1..Len(keys) : keys[i] \in allowedKeys

isArrayValidationRule(r) ==
    LET allowedKeys == {"arrayRules", "arrayElementRule"}
        keys == OwnKeys(r)
    IN \A i \in 1..Len(keys) : keys[i] \in allowedKeys

\* the loop of validatePrimitiveField from rule[index] on (index is 1-based)
RECURSIVE primitiveLoop(_, _, _, _, _, _, _)
\* a variant of the loop that stops at the first violation
primitiveLoop_breaks(index, key, obj, r, list, violations, calls) ==
    IF index > LengthOf(list) \/ Len(violations) > 0
    THEN Return(Obj(<<Prop("errors", Arr(violations)),
                      Prop("isValid", Bool(Len(violations) = 0))>>), calls)
    ELSE LET validateFunc == list.elems[index] IN
         IF ~Truthy(validateFunc)
         THEN primitiveLoop(index + 1, key, obj, r, list, violations, calls)
         ELSE IF TypeOf(validateFunc) # "function"
         THEN Throw(ErrNotFunction, calls)
         ELSE IF obj.t \in {"undefined", "null"}
         THEN Throw(ErrTypeError, calls)
         ELSE LET value == Get(obj, key)
                  violation == Apply(validateFunc.id, value, r)
                  called == Append(calls, Call("validateFunc", validateFunc.id, value, r))
              IN primitiveLoop(index + 1, key, obj, r, list,
                               IF Truthy(violation)
                               THEN Append(violations, violation)
                               ELSE violations,
                               called)

\* a variant of the loop that skips every entry that is not a function
primitiveLoop_skipsAll(index, key, obj, r, list, violations, calls) ==
    IF index > LengthOf(list)
    THEN Return(Obj(<<Prop("errors", Arr(violations)),
                      Prop("isValid", Bool(Len(violations) = 0))>>), calls)
    ELSE LET validateFunc == list.elems[index] IN
         IF TypeOf(validateFunc) # "function"
         THEN primitiveLoop(index + 1, key, obj, r, list, violations, calls)
         ELSE IF obj.t \in {"undefined", "null"}
         THEN Throw(ErrTypeError, calls)
         ELSE LET value == Get(obj, key)
                  violation == Apply(validateFunc.id, value, r)
                  called == Append(calls, Call("validateFunc", validateFunc.id, value, r))
              IN primitiveLoop(index + 1, key, obj, r, list,
                               IF Truthy(violation)
                               THEN Append(violations, violation)
                               ELSE violations,
                               called)

\* a variant of the loop that keeps every return value but undefined
primitiveLoop_keepsDefined(index, key, obj, r, list, violations, calls) ==
    IF index > LengthOf(list)
    THEN Return(Obj(<<Prop("errors", Arr(violations)),
                      Prop("isValid", Bool(Len(violations) = 0))>>), calls)
    ELSE LET validateFunc == list.elems[index] IN
         IF ~Truthy(validateFunc)
         THEN primitiveLoop(index + 1, key, obj, r, list, violations, calls)
         ELSE IF TypeOf(validateFunc) # "function"
         THEN Throw(ErrNotFunction, calls)
         ELSE IF obj.t \in {"undefined", "null"}
         THEN Throw(ErrTypeError, calls)
         ELSE LET value == Get(obj, key)
                  violation == Apply(validateFunc.id, value, r)
                  called == Append(calls, Call("validateFunc", validateFunc.id, value, r))
              IN primitiveLoop(index + 1, key, obj, r, list,
                               IF violation # Undefined
                               THEN Append(violations, violation)
                               ELSE violations,
                               called)

primitiveLoop(index, key, obj, r, list, violations, calls) ==
    IF index > LengthOf(list)
    THEN Return(Obj(<<Prop("errors", Arr(violations)),
                      Prop("isValid", Bool(Len(violations) = 0))>>), calls)
    ELSE LET validateFunc == list.elems[index] IN
         IF ~Truthy(validateFunc)
         THEN primitiveLoop(index + 1, key, obj, r, list, violations, calls)
         ELSE IF TypeOf(validateFunc) # "function"
         THEN Throw(ErrNotFunction, calls)
         ELSE IF obj.t \in {"undefined", "null"}
         THEN Throw(ErrTypeError, calls)
         ELSE LET value == Get(obj, key)
                  violation == Apply(validateFunc.id, value, r)
                  called == Append(calls, Call("validateFunc", validateFunc.id, value, r))
              IN primitiveLoop(index + 1, key, obj, r, list,
                               IF Truthy(violation)
                               THEN Append(violations, violation)
                               ELSE violations,
                               called)

\* a variant of validatePrimitiveField that runs no rule on a missing value
validatePrimitiveField_skipsMissing(key, obj, r, list) ==
    IF obj.t \in {"undefined", "null"} \/ Get(obj, key) = Undefined
    THEN Return(Obj(<<Prop("errors", Arr(<<>>)), Prop("isValid", Bool(TRUE))>>), <<>>)
    ELSE primitiveLoop(1, key, obj, r, list, <<>>, <<>>)

validatePrimitiveField(key, obj, r, list) ==
    primitiveLoop(1, key, obj, r, list, <<>>, <<>>)

\* the loop over arrayRules of validateArrayField: one whole run of
\* validatePrimitiveField per entry of arrayRules
RECURSIVE arrayRulesLoop(_, _, _, _, _, _, _)
\* a variant of the loop that runs only entry index in its turn and assigns
\* what that entry reports
arrayRulesLoop_onePerEntry(index, key, obj, r, arrayRules, arrayFieldErrors, calls) ==
    IF index > LengthOf(arrayRules)
    THEN Return(arrayFieldErrors, calls)
    ELSE LET res == validatePrimitiveField(key, obj, r,
                                           Arr(<<arrayRules.elems[index]>>)) IN
         IF res.thrown # NoThrow
         THEN Throw(res.thrown, calls \o res.calls)
         ELSE arrayRulesLoop(index + 1, key, obj, r, arrayRules,
                             IF ~Get(res.value, "isValid").b
                             THEN Put(arrayFieldErrors, "arrayErrors",
                                      Get(res.value, "errors"))
                             ELSE arrayFieldErrors,
                             calls \o res.calls)

arrayRulesLoop(index, key, obj, r, arrayRules, arrayFieldErrors, calls) ==
    IF index > LengthOf(arrayRules)
    THEN Return(arrayFieldErrors, calls)
    ELSE LET res == validatePrimitiveField(key, obj, r, arrayRules) IN
         IF res.thrown # NoThrow
         THEN Throw(res.thrown, calls \o res.calls)
         ELSE arrayRulesLoop(index + 1, key, obj, r, arrayRules,
                             IF ~Get(res.value, "isValid").b
                             THEN Put(arrayFieldErrors, "arrayErrors",
                                      Get(res.value, "errors"))
                             ELSE arrayFieldErrors,
                             calls \o res.calls)

\* a variant of assignErrorsIfAny that starts a new errors object every time
assignErrorsIfAny_startsAnew(errors, key, violations) ==
    Put(Obj(<<>>), key, violations)

\* errors[key] = violations, creating errors on first use
assignErrorsIfAny(errors, key, violations) ==
    Put(IF ~Truthy(errors) THEN Obj(<<>>) ELSE errors, key, violations)

\* a variant of pushElementError that records the position of the entry in
\* arrayElementErrors instead of the position of the element
pushElementError_countsEntries(arrayFieldErrors, index, error, element) ==
    LET old == Get(arrayFieldErrors, "arrayElementErrors")
        list == IF ~Truthy(old) THEN <<>> ELSE old.elems
    IN Put(arrayFieldErrors, "arrayElementErrors",
           Arr(Append(list, Obj(<<Prop("index", Num(Len(list))),
                                  Prop("errors", error),
                                  Prop("attemptedValue", element)>>))))

\* arrayFieldErrors.arrayElementErrors.push({index, errors, attemptedValue})
pushElementError(arrayFieldErrors, index, error, element) ==
    LET old == Get(arrayFieldErrors, "arrayElementErrors")
        list == IF ~Truthy(old) THEN <<>> ELSE old.elems
    IN Put(arrayFieldErrors, "arrayElementErrors",
           Arr(Append(list, Obj(<<Prop("index", Num(index)),
                                  Prop("errors", error),
                                  Prop("attemptedValue", element)>>))))

RECURSIVE validateObject(_, _, _)
RECURSIVE validateArrayField(_, _, _, _)
RECURSIVE elementLoop(_, _, _, _, _, _)
RECURSIVE fieldLoop(_, _, _, _, _, _, _)

\* a variant of the element loop that hands the whole array to the builder
elementLoop_buildsFromArray(index, value, r, arrayElementRule, arrayFieldErrors, calls) ==
    IF index > Len(value.elems)
    THEN Return(arrayFieldErrors, calls)
    ELSE LET element == value.elems[index]
             built == TypeOf(arrayElementRule) = "function"
             validationRule == IF built
                               THEN Apply(arrayElementRule.id, value, r)
                               ELSE arrayElementRule
             res == validateObject(element, r, validationRule)
             called == (IF built
                        THEN Append(calls, Call("arrayElementRule", arrayElementRule.id,
                                                value, r))
                        ELSE calls) \o res.calls
         IN IF res.thrown # NoThrow
            THEN Throw(res.thrown, called)
            ELSE elementLoop(index + 1, value, r, arrayElementRule,
                             IF Truthy(res.value)
                             THEN pushElementError(arrayFieldErrors, index - 1,
                                                   res.value, element)
                             ELSE arrayFieldErrors,
                             called)

\* a variant of the element loop that hands the array on as root
elementLoop_rootIsArray(index, value, r, arrayElementRule, arrayFieldErrors, calls) ==
    IF index > Len(value.elems)
    THEN Return(arrayFieldErrors, calls)
    ELSE LET element == value.elems[index]
             built == TypeOf(arrayElementRule) = "function"
             validationRule == IF built
                               THEN Apply(arrayElementRule.id, element, r)
                               ELSE arrayElementRule
             res == validateObject(element, value, validationRule)
             called == (IF built
                        THEN Append(calls, Call("arrayElementRule", arrayElementRule.id,
                                                element, r))
                        ELSE calls) \o res.calls
         IN IF res.thrown # NoThrow
            THEN Throw(res.thrown, called)
            ELSE elementLoop(index + 1, value, r, arrayElementRule,
                             IF Truthy(res.value)
                             THEN pushElementError(arrayFieldErrors, index - 1,
                                                   res.value, element)
                             ELSE arrayFieldErrors,
                             called)

\* the loop over the elements of validateArrayField (index is 1-based here,
\* the recorded index is the 0-based one of the code)
elementLoop(index, value, r, arrayElementRule, arrayFieldErrors, calls) ==
    IF index > Len(value.elems)
    THEN Return(arrayFieldErrors, calls)
    ELSE LET element == value.elems[index]
             built == TypeOf(arrayElementRule) = "function"
             validationRule == IF built
                               THEN Apply(arrayElementRule.id, element, r)
                               ELSE arrayElementRule
             res == validateObject(element, r, validationRule)
             called == (IF built
                        THEN Append(calls, Call("arrayElementRule", arrayElementRule.id,
                                                element, r))
                        ELSE calls) \o res.calls
         IN IF res.thrown # NoThrow
            THEN Throw(res.thrown, called)
            ELSE elementLoop(index + 1, value, r, arrayElementRule,
                             IF Truthy(res.value)
                             THEN pushElementError(arrayFieldErrors, index - 1,
                                                   res.value, element)
                             ELSE arrayFieldErrors,
                             called)

\* a variant of validateArrayField that validates the elements only when the
\* whole-array rules reported nothing
validateArrayField_elementsIfWholePass(key, obj, r, fieldRule) ==
    LET value == Get(obj, key) IN
    IF TypeOf(fieldRule) = "function"
    THEN LET arrayRule == Apply(fieldRule.id, value, r)
             res == validateArrayField(key, obj, r, arrayRule)
         IN [res EXCEPT !.calls = <<Call("rule", fieldRule.id, value, r)>> \o @]
    ELSE IF fieldRule.t \in {"undefined", "null"}
    THEN Throw(ErrTypeError, <<>>)
    ELSE LET arrayRules == Get(fieldRule, "arrayRules")
             arrayElementRule == Get(fieldRule, "arrayElementRule")
             whole == IF Truthy(arrayRules)
                      THEN arrayRulesLoop(1, key, obj, r, arrayRules, Obj(<<>>), <<>>)
                      ELSE Return(Obj(<<>>), <<>>)
         IN IF whole.thrown # NoThrow
            THEN whole
            ELSE IF /\ Truthy(arrayElementRule)
                    /\ IsArray(value)
                    /\ ~Truthy(Get(whole.value, "arrayErrors"))
            THEN elementLoop(1, value, r, arrayElementRule, whole.value, whole.calls)
            ELSE whole

\* a variant of validateArrayField that hands the owning object to a builder
validateArrayField_buildsFromObject(key, obj, r, fieldRule) ==
    LET value == Get(obj, key) IN
    IF TypeOf(fieldRule) = "function"
    THEN LET arrayRule == Apply(fieldRule.id, obj, r)
             res == validateArrayField(key, obj, r, arrayRule)
         IN [res EXCEPT !.calls = <<Call("rule", fieldRule.id, obj, r)>> \o @]
    ELSE IF fieldRule.t \in {"undefined", "null"}
    THEN Throw(ErrTypeError, <<>>)
    ELSE LET arrayRules == Get(fieldRule, "arrayRules")
             arrayElementRule == Get(fieldRule, "arrayElementRule")
             whole == IF Truthy(arrayRules)
                      THEN arrayRulesLoop(1, key, obj, r, arrayRules, Obj(<<>>), <<>>)
                      ELSE Return(Obj(<<>>), <<>>)
         IN IF whole.thrown # NoThrow
            THEN whole
            ELSE IF Truthy(arrayElementRule) /\ IsArray(value)
            THEN elementLoop(1, value, r, arrayElementRule, whole.value, whole.calls)
            ELSE whole

validateArrayField(key, obj, r, fieldRule) ==
    LET value == Get(obj, key) IN
    IF TypeOf(fieldRule) = "function"
    THEN LET arrayRule == Apply(fieldRule.id, value, r)
             res == validateArrayField(key, obj, r, arrayRule)
         IN [res EXCEPT !.calls = <<Call("rule", fieldRule.id, value, r)>> \o @]
    ELSE IF fieldRule.t \in {"undefined", "null"}
    THEN \* reading arrayRules of undefined
         Throw(ErrTypeError, <<>>)
    ELSE LET arrayRules == Get(fieldRule, "arrayRules")
             arrayElementRule == Get(fieldRule, "arrayElementRule")
             whole == IF Truthy(arrayRules)
                      THEN arrayRulesLoop(1, key, obj, r, arrayRules, Obj(<<>>), <<>>)
                      ELSE Return(Obj(<<>>), <<>>)
         IN IF whole.thrown # NoThrow
            THEN whole
            ELSE IF Truthy(arrayElementRule) /\ IsArray(value)
            THEN elementLoop(1, value, r, arrayElementRule, whole.value, whole.calls)
            ELSE whole

\* a variant of validateObjectField that hands the nested object on as root
validateObjectField_rootIsValue(key, obj, r, fieldRule) ==
    LET value == Get(obj, key)
        res == validateObject(value, value, fieldRule)
    IN IF res.thrown # NoThrow
       THEN res
       ELSE Return(Obj(<<Prop("errors", res.value),
                         Prop("isValid", Bool(~Truthy(res.value)))>>), res.calls)

\* a variant of validateObjectField that swallows what the recursion throws
validateObjectField_catches(key, obj, r, fieldRule) ==
    LET value == Get(obj, key)
        res == validateObject(value, r, fieldRule)
    IN IF res.thrown # NoThrow
       THEN Return(Obj(<<Prop("errors", Undefined), Prop("isValid", Bool(TRUE))>>),
                   res.calls)
       ELSE Return(Obj(<<Prop("errors", res.value),
                         Prop("isValid", Bool(~Truthy(res.value)))>>), res.calls)

validateObjectField(key, obj, r, fieldRule) ==
    LET value == Get(obj, key)
        res == validateObject(value, r, fieldRule)
    IN IF res.thrown # NoThrow
       THEN res
       ELSE Return(Obj(<<Prop("errors", res.value),
                         Prop("isValid", Bool(~Truthy(res.value)))>>), res.calls)

\* a variant of the loop over the declared keys that validates a nested
\* rule-set whatever the type of the field's value
fieldLoop_anyValue(i, keys, obj, r, validationRule, errors, calls) ==
    IF i > Len(keys)
    THEN Return(errors, calls)
    ELSE LET key == keys[i]
             fieldRule == Get(validationRule, key)
             value == Get(obj, key)
         IN IF ~Truthy(fieldRule)
            THEN fieldLoop(i + 1, keys, obj, r, validationRule, errors, calls)
            ELSE IF TypeOf(fieldRule) \notin {"array", "object", "function"}
            THEN Throw(ErrInvalidRule(fieldRule), calls)
            ELSE IF IsArray(fieldRule)
            THEN LET res == validatePrimitiveField(key, obj, r, fieldRule) IN
                 IF res.thrown # NoThrow
                 THEN Throw(res.thrown, calls \o res.calls)
                 ELSE fieldLoop(i + 1, keys, obj, r, validationRule,
                                IF ~Get(res.value, "isValid").b
                                THEN assignErrorsIfAny(errors, key,
                                                       Get(res.value, "errors"))
                                ELSE errors,
                                calls \o res.calls)
            ELSE IF isArrayValidationRule(fieldRule)
            THEN LET res == validateArrayField(key, obj, r, fieldRule) IN
                 IF res.thrown # NoThrow
                 THEN Throw(res.thrown, calls \o res.calls)
                 ELSE fieldLoop(i + 1, keys, obj, r, validationRule,
                                IF Truthy(Get(res.value, "arrayErrors"))
                                   \/ Truthy(Get(res.value, "arrayElementErrors"))
                                THEN assignErrorsIfAny(errors, key, res.value)
                                ELSE errors,
                                calls \o res.calls)
            ELSE LET res == validateObjectField(key, obj, r, fieldRule) IN
                 IF res.thrown # NoThrow
                 THEN Throw(res.thrown, calls \o res.calls)
                 ELSE fieldLoop(i + 1, keys, obj, r, validationRule,
                                IF ~Get(res.value, "isValid").b
                                THEN assignErrorsIfAny(errors, key,
                                                       Get(res.value, "errors"))
                                ELSE errors,
                                calls \o res.calls)

\* the loop over the declared keys of validateObject, from keys[i] on
fieldLoop(i, keys, obj, r, validationRule, errors, calls) ==
    IF i > Len(keys)
    THEN Return(errors, calls)
    ELSE LET key == keys[i]
             fieldRule == Get(validationRule, key)
             value == Get(obj, key)
         IN IF ~Truthy(fieldRule)
            THEN fieldLoop(i + 1, keys, obj, r, validationRule, errors, calls)
            ELSE IF TypeOf(fieldRule) \notin {"array", "object", "function"}
            THEN Throw(ErrInvalidRule(fieldRule), calls)
            ELSE IF IsArray(fieldRule)
            THEN LET res == validatePrimitiveField(key, obj, r, fieldRule) IN
                 IF res.thrown # NoThrow
                 THEN Throw(res.thrown, calls \o res.calls)
                 ELSE fieldLoop(i + 1, keys, obj, r, validationRule,
                                IF ~Get(res.value, "isValid").b
                                THEN assignErrorsIfAny(errors, key,
                                                       Get(res.value, "errors"))
                                ELSE errors,
                                calls \o res.calls)
            ELSE IF isArrayValidationRule(fieldRule)
            THEN LET res == validateArrayField(key, obj, r, fieldRule) IN
                 IF res.thrown # NoThrow
                 THEN Throw(res.thrown, calls \o res.calls)
                 ELSE fieldLoop(i + 1, keys, obj, r, validationRule,
                                IF Truthy(Get(res.value, "arrayErrors"))
                                   \/ Truthy(Get(res.value, "arrayElementErrors"))
                                THEN assignErrorsIfAny(errors, key, res.value)
                                ELSE errors,
                                calls \o res.calls)
            ELSE IF TypeOf(value) = "object"
            THEN LET res == validateObjectField(key, obj, r, fieldRule) IN
                 IF res.thrown # NoThrow
                 THEN Throw(res.thrown, calls \o res.calls)
                 ELSE fieldLoop(i + 1, keys, obj, r, validationRule,
                                IF ~Get(res.value, "isValid").b
                                THEN assignErrorsIfAny(errors, key,
                                                       Get(res.value, "errors"))
                                ELSE errors,
                                calls \o res.calls)
            ELSE fieldLoop(i + 1, keys, obj, r, validationRule, errors, calls)

\* a variant of validateObject that iterates the object's own keys
validateObject_objectKeys(obj, rootObject, validationRule) ==
    IF ~Truthy(validationRule)
    THEN Throw(ErrNoRule, <<>>)
    ELSE fieldLoop(1, OwnKeys(IF ~Truthy(obj) THEN Obj(<<>>) ELSE obj),
                   IF ~Truthy(obj) THEN Obj(<<>>) ELSE obj,
                   rootObject, validationRule, Undefined, <<>>)

\* a variant of validateObject without the substitution of {} for a missing
\* object: reading a declared key of it fails
validateObject_keepsMissing(obj, rootObject, validationRule) ==
    IF ~Truthy(validationRule)
    THEN Throw(ErrNoRule, <<>>)
    ELSE IF obj.t \in {"undefined", "null"} /\ Len(OwnKeys(validationRule)) > 0
    THEN Throw(ErrTypeError, <<>>)
    ELSE fieldLoop(1, OwnKeys(validationRule), obj,
                   rootObject, validationRule, Undefined, <<>>)

\* a variant of validateObject that checks the type of every rule before it
\* validates any field
validateObject_checksFirst(obj, rootObject, validationRule) ==
    IF ~Truthy(validationRule)
    THEN Throw(ErrNoRule, <<>>)
    ELSE LET keys == OwnKeys(validationRule)
             bad == {i \in 1..Len(keys) :
                        /\ Truthy(Get(validationRule, keys[i]))
                        /\ TypeOf(Get(validationRule, keys[i]))
                              \notin {"array", "object", "function"}}
         IN IF bad # {}
            THEN Throw(ErrInvalidRule(Get(validationRule,
                           keys[CHOOSE i \in bad : \A j \in bad : i <= j])), <<>>)
            ELSE fieldLoop(1, keys, IF ~Truthy(obj) THEN Obj(<<>>) ELSE obj,
                           rootObject, validationRule, Undefined, <<>>)

\* a variant of validateObject that starts from an empty error tree
validateObject_startsEmpty(obj, rootObject, validationRule) ==
    IF ~Truthy(validationRule)
    THEN Throw(ErrNoRule, <<>>)
    ELSE fieldLoop(1, OwnKeys(validationRule),
                   IF ~Truthy(obj) THEN Obj(<<>>) ELSE obj,
                   rootObject, validationRule, Obj(<<>>), <<>>)

validateObject(obj, rootObject, validationRule) ==
    IF ~Truthy(validationRule)
    THEN Throw(ErrNoRule, <<>>)
    ELSE fieldLoop(1, OwnKeys(validationRule),
                   IF ~Truthy(obj) THEN Obj(<<>>) ELSE obj,
                   rootObject, validationRule, Undefined, <<>>)

(***************************************************************************)
(* The inputs: data objects, roots and rule-sets.                          *)
(***************************************************************************)
SeqsUpTo(S, n) == UNION {[1..k -> S] : k \in 0..n}

Keys == {"name", "data"}

\* array elements: one that passes { name: [required] } and one that fails it
Good == Obj(<<Prop("name", Str("a"))>>)
Bad == Obj(<<Prop("name", Str(""))>>)

NameVals == {Undefined, Str(""), Str("a")}

\* an object that holds an array under data
Holder == Obj(<<Prop("data", Arr(<<Bad>>))>>)

ArrayVals ==
    {Arr(s) : s \in SeqsUpTo({Good, Bad}, MaxElems)}
        \cup {Arr(<<Null, Bad>>), Arr(<<Holder, Num(0)>>)}

DataVals ==
    {Null, Str("a"), Bad, Obj(<<Prop("name", Bad)>>), Holder} \cup ArrayVals

Objects ==
    {Obj(<<Prop("name", n), Prop("data", d)>>) : n \in NameVals, d \in DataVals}
        \cup {Obj(<<Prop("name", Num(5)), Prop("data", Num(5))>>), Obj(<<>>), Undefined}

RootA == Obj(<<Prop("name", Str("root"))>>)

\* primitive rule lists
PrimLists ==
    {Arr(s) : s \in SeqsUpTo({Fn("required"), Fn("isString"), Undefined}, MaxRules)}
        \cup {Arr(<<e, Fn("required")>>) :
                 e \in {Null, Num(0), Str(""), Bool(FALSE), Str("x"), Bool(TRUE)}}
        \cup {Arr(<<Fn("required"), Num(7)>>),
              Arr(<<Null, Fn("required"), Str("x")>>),
              Arr(<<Fn("falsy"), Fn("rootHasName")>>)}

\* array rules: { arrayRules?, arrayElementRule? }
WholeRules ==
    {<<>>, <<Prop("arrayRules", Arr(<<Fn("requiredArray"), Fn("nonEmpty")>>))>>}
        \cup {<<Prop("arrayRules", Arr(s))>> :
                 s \in SeqsUpTo({Fn("nonEmpty"), Fn("noDuplicates")}, MaxRules)}

ElementRules ==
    {<<>>, <<Prop("arrayElementRule", NameRequired)>>,
     <<Prop("arrayElementRule", Fn("buildElementRule"))>>}

ArrayRuleVals ==
    {Obj(w \o e) : w \in WholeRules, e \in ElementRules}
        \cup {Obj(<<Prop("arrayRules", Arr(<<Str("x")>>)),
                    Prop("arrayElementRule", NameRequired)>>),
              Obj(<<Prop("arrayElementRule", Obj(<<Prop("name", Str("bad"))>>))>>),
              Obj(<<Prop("arrayElementRule", Fn("buildUndefined"))>>),
              Obj(<<Prop("arrayElementRule",
                         Obj(<<Prop("data", Fn("buildByRoot"))>>))>>)}

\* functions standing as a field's rule
BuilderRules ==
    {Fn(id) : id \in {"buildArrayRule", "buildByRoot", "buildByValue",
                      "buildPrimitive", "buildNested", "buildBuilder",
                      "buildUndefined", "buildBadList"}}

\* nested rule-sets
NestedRules ==
    {NameRequired,
     Obj(<<Prop("name", NameRequired)>>),
     Obj(<<Prop("name", Arr(<<Str("x")>>))>>),
     Obj(<<Prop("data", Fn("buildArrayRule"))>>),
     Obj(<<Prop("arrayRules", Arr(<<Fn("required")>>)),
           Prop("name", Arr(<<Fn("isString")>>))>>)}

\* rules of no supported type, truthy and falsy
OtherRules ==
    {Str("bad"), Num(7), Bool(TRUE), Undefined, Null, Str(""), Num(0)}

FieldRules ==
    PrimLists \cup ArrayRuleVals \cup BuilderRules \cup NestedRules \cup OtherRules

\* the rules that two-field rule-sets combine
CoreRules ==
    {Arr(<<Fn("required")>>), Arr(<<Fn("isString")>>), Str("bad"), Undefined,
     NameRequired,
     Obj(<<Prop("arrayRules", Arr(<<Fn("nonEmpty")>>)),
           Prop("arrayElementRule", NameRequired)>>)}

RuleSets ==
    {Obj(<<Prop(k, r)>>) : k \in Keys, r \in FieldRules}
        \cup {Obj(<<Prop("name", a), Prop("data", b)>>) : a \in CoreRules, b \in CoreRules}
        \cup {Obj(<<Prop("data", b), Prop("name", a)>>) : a \in CoreRules, b \in CoreRules}
        \cup {Obj(<<>>), Undefined, Null}

(***************************************************************************)
(* The state machine: a caller holding (object, root, rule) makes one call *)
(* of the engine; out is the completion of that call.                      *)
(***************************************************************************)
NoCall == Return(Undefined, <<>>)

Init ==
    /\ object \in Objects
    /\ root \in {object, RootA}
    /\ rule \in RuleSets
    /\ op = "init"
    /\ arg = ""
    /\ out = NoCall

\* validateObject(object, root, rule)
CallValidateObject ==
    /\ op = "init"
    /\ op' = "validateObject"
    /\ arg' = ""
    /\ out' = validateObject(object, root, rule)
    /\ UNCHANGED <<object, root, rule>>

\* validatePrimitiveField(key, object, root, rule[key]) for a declared key whose
\* rule is a list
CallValidatePrimitiveField ==
    /\ op = "init"
    /\ rule.t = "object"
    /\ \E i \in 1..Len(rule.props) :
          /\ IsArray(rule.props[i].v)
          /\ op' = "validatePrimitiveField"
          /\ arg' = rule.props[i].k
          /\ out' = validatePrimitiveField(rule.props[i].k, object, root, rule.props[i].v)
    /\ UNCHANGED <<object, root, rule>>

Next == CallValidateObject \/ CallValidatePrimitiveField

Spec == Init /\ [][Next]_vars

(***************************************************************************)
(* Vocabulary of the properties.                                           *)
(***************************************************************************)
Returned == op = "validateObject" /\ out.thrown = NoThrow

\* the keys the rule-set declares, in declaration order
Declared == IF rule.t = "object" THEN OwnKeys(rule) ELSE <<>>
DeclaredKeys == {Declared[i] : i \in 1..Len(Declared)}

HasKey(v, k) == v.t = "object" /\ \E i \in 1..Len(v.props) : v.props[i].k = k

\* the rule-set that declares only key k of the rule-set
Only(k) == Obj(<<Prop(k, Get(rule, k))>>)

\* some rule function invoked in completion c returned a violation
Violating(c) ==
    \E i \in 1..Len(c.calls) :
        /\ c.calls[i].at = "validateFunc"
        /\ Truthy(Apply(c.calls[i].f, c.calls[i].value, c.calls[i].root))

\* every list and every tree stored in an error tree is non-empty (the
\* attemptedValue of an element entry is data, not part of the tree)
RECURSIVE NonEmptyTree(_)
NonEmptyTree(v) ==
    CASE v.t = "array" ->
            /\ Len(v.elems) > 0
            /\ \A i \in 1..Len(v.elems) : NonEmptyTree(v.elems[i])
      [] v.t = "object" ->
            /\ Len(v.props) > 0
            /\ \A i \in 1..Len(v.props) :
                  v.props[i].k # "attemptedValue" => NonEmptyTree(v.props[i].v)
      [] OTHER -> TRUE

(***************************************************************************)
(* C1: when validateObject returns, a declared field is a key of the error *)
(* tree iff validating that field alone made some rule function return a   *)
(* violation; the result is undefined, never an empty tree, when no field   *)
(* fails; every list and nested tree stored in the error tree is non-empty. *)
(***************************************************************************)
C1_FailingFieldsOnly ==
    Returned =>
        /\ out.value = Undefined \/ out.value.t = "object"
        /\ NonEmptyTree(out.value)
        /\ \A k \in DeclaredKeys :
              HasKey(out.value, k) <=> Violating(validateObject(object, root, Only(k)))
        /\ out.value = Undefined <=>
              \A k \in DeclaredKeys : ~Violating(validateObject(object, root, Only(k)))

\* a returned tree that holds one declared field and omits another whose
\* rule list ran and passed
C1_Witness ==
    /\ Returned
    /\ \E k \in DeclaredKeys : HasKey(out.value, k)
    /\ \E k \in DeclaredKeys :
          /\ ~HasKey(out.value, k)
          /\ Len(validateObject(object, root, Only(k)).calls) > 0

(***************************************************************************)
(* What a list of rule functions yields for a value, stated without the    *)
(* engine: the truthy results of its functions, in list order.             *)
(***************************************************************************)
RECURSIVE ViolationsOf(_, _, _)
ViolationsOf(list, value, r) ==
    IF list = <<>>
    THEN <<>>
    ELSE LET f == Head(list)
             rest == ViolationsOf(Tail(list), value, r)
         IN IF f.t = "function" /\ Truthy(Apply(f.id, value, r))
            THEN <<Apply(f.id, value, r)>> \o rest
            ELSE rest

\* a non-list object whose own keys all lie in {arrayRules, arrayElementRule}
IsArrayRuleShape(fr) ==
    /\ fr.t = "object"
    /\ \A i \in 1..Len(fr.props) : fr.props[i].k \in {"arrayRules", "arrayElementRule"}

\* an object-typed rule with some other key
IsNestedRuleSet(fr) == fr.t = "object" /\ ~IsArrayRuleShape(fr)

\* the violations of the whole-array rules of an array rule for a value
WholeViolations(fr, value, r) ==
    IF IsArray(Get(fr, "arrayRules"))
    THEN ViolationsOf(Get(fr, "arrayRules").elems, value, r)
    ELSE <<>>

\* some rule of the field rule fr, at any depth, fails on a missing value
RECURSIVE FailsOnMissing(_, _)
FailsOnMissing(fr, r) ==
    CASE fr.t = "array" -> ViolationsOf(fr.elems, Undefined, r) # <<>>
      [] fr.t = "function" -> FailsOnMissing(Apply(fr.id, Undefined, r), r)
      [] fr.t = "object" ->
            IF IsArrayRuleShape(fr)
            THEN WholeViolations(fr, Undefined, r) # <<>>
            ELSE \E i \in 1..Len(fr.props) : FailsOnMissing(fr.props[i].v, r)
      [] OTHER -> FALSE

(***************************************************************************)
(* C2 as stated: validateObject({}, root, R) holds in its error tree every *)
(* declared field some rule of which, at any nesting depth, fails on a      *)
(* missing value.                                                           *)
(***************************************************************************)
C2_EveryDepthReported ==
    (Returned /\ object = Obj(<<>>)) =>
        \A k \in DeclaredKeys :
            FailsOnMissing(Get(rule, k), root) => HasKey(out.value, k)

(***************************************************************************)
(* C2 amended: validateObject({}, root, R) iterates the declared keys and  *)
(* reports, for a field whose rule is a primitive rule list, exactly the    *)
(* violations of the list on undefined, and for a field whose rule is an    *)
(* array rule exactly the violations of its arrayRules on undefined (as     *)
(* arrayErrors); a field whose rule is a nested rule-set is skipped, its    *)
(* value not being object-typed, and is never reported.                     *)
(***************************************************************************)
C2_DeclaredKeysDrive ==
    (Returned /\ object = Obj(<<>>)) =>
        \A k \in DeclaredKeys :
            LET fr == Get(rule, k) IN
            /\ IsArray(fr) =>
                  LET v == ViolationsOf(fr.elems, Undefined, root) IN
                  IF v # <<>>
                  THEN Get(out.value, k) = Arr(v)
                  ELSE ~HasKey(out.value, k)
            /\ IsArrayRuleShape(fr) =>
                  LET v == WholeViolations(fr, Undefined, root) IN
                  IF v # <<>>
                  THEN Get(out.value, k) = Obj(<<Prop("arrayErrors", Arr(v))>>)
                  ELSE ~HasKey(out.value, k)
            /\ IsNestedRuleSet(fr) => ~HasKey(out.value, k)

\* {} validated against a rule-set with a failing primitive field, which is
\* reported, and a nested rule-set requiring a field, which is not
C2_Witness ==
    /\ Returned
    /\ object = Obj(<<>>)
    /\ \E k \in DeclaredKeys : IsArray(Get(rule, k)) /\ HasKey(out.value, k)
    /\ \E k \in DeclaredKeys :
          /\ IsNestedRuleSet(Get(rule, k))
          /\ FailsOnMissing(Get(rule, k), root)
          /\ ~HasKey(out.value, k)

(***************************************************************************)
(* C3: validateObject(undefined, root, R) completes exactly as              *)
(* validateObject({}, root, R) does: same error tree or same absence, same  *)
(* error thrown, same rule functions invoked with the same arguments.       *)
(***************************************************************************)
C3_UndefinedAsEmpty ==
    (op = "validateObject" /\ object = Undefined) =>
        out = validateObject(Obj(<<>>), root, rule)

\* undefined validated against a rule-set some rule of which fired and failed
C3_Witness ==
    /\ Returned
    /\ object = Undefined
    /\ out.value # Undefined
    /\ Len(out.calls) > 0

(***************************************************************************)
(* C4: every key of the returned error tree, of every nested error tree    *)
(* and of every element error tree is declared in the corresponding         *)
(* rule-set, and objects that agree on the declared fields of the rule-set  *)
(* complete identically, whatever their other fields are.                   *)
(***************************************************************************)
\* the rule a field rule stands for once its builders are resolved
RECURSIVE ResolveRule(_, _, _)
ResolveRule(fr, value, r) ==
    IF fr.t = "function" THEN ResolveRule(Apply(fr.id, value, r), value, r) ELSE fr

\* o[k] for the object validateObject works on
FieldOf(o, k) == IF Truthy(o) THEN Get(o, k) ELSE Undefined

RECURSIVE ShapeWithin(_, _, _, _)
ShapeWithin(tree, ruleSet, obj, r) ==
    \/ tree = Undefined
    \/ /\ tree.t = "object"
       /\ \A i \in 1..Len(tree.props) :
             LET k == tree.props[i].k
                 v == tree.props[i].v
                 value == FieldOf(obj, k)
                 fr == ResolveRule(Get(ruleSet, k), value, r)
             IN /\ HasKey(ruleSet, k)
                /\ CASE IsArray(fr) -> IsArray(v)
                     [] IsArrayRuleShape(fr) ->
                          /\ v.t = "object"
                          /\ \A j \in 1..Len(v.props) :
                                v.props[j].k \in {"arrayErrors", "arrayElementErrors"}
                          /\ HasKey(v, "arrayElementErrors") =>
                                \A j \in 1..Len(Get(v, "arrayElementErrors").elems) :
                                    LET entry == Get(v, "arrayElementErrors").elems[j]
                                        element == Get(entry, "attemptedValue")
                                        er == Get(fr, "arrayElementRule")
                                    IN ShapeWithin(Get(entry, "errors"),
                                                   IF er.t = "function"
                                                   THEN Apply(er.id, element, r)
                                                   ELSE er,
                                                   element, r)
                     [] IsNestedRuleSet(fr) -> ShapeWithin(v, fr, value, r)
                     [] OTHER -> FALSE

\* the objects that differ from the one validated only in undeclared fields
SameDeclared ==
    {o \in Objects : \A k \in DeclaredKeys : FieldOf(o, k) = FieldOf(object, k)}

C4_ShapeOfRuleSet ==
    (op = "validateObject") =>
        /\ out.thrown = NoThrow => ShapeWithin(out.value, rule, object, root)
        /\ \A o \in SameDeclared : validateObject(o, root, rule) = out

\* a returned error tree with a nested or element tree, for an object that
\* has a counterpart differing in an undeclared field
C4_Witness ==
    /\ Returned
    /\ out.value.t = "object"
    /\ \E i \in 1..Len(out.value.props) : out.value.props[i].v.t = "object"
    /\ \E o \in SameDeclared : o # object /\ o # Undefined /\ object # Undefined

(***************************************************************************)
(* Vocabulary of validatePrimitiveField(arg, object, root, rule[arg]).      *)
(***************************************************************************)
CalledPrimitive == op = "validatePrimitiveField"

\* the entries of the list passed, and the value of the field
ListPassed == Get(rule, arg).elems
ValuePassed == FieldOf(object, arg)

\* the calls a list owes: one per function entry, in list order, with
\* (value, root)
CallsOf(list, value, r) ==
    LET fs == SelectSeq(list, LAMBDA e : e.t = "function")
    IN [i \in 1..Len(fs) |-> Call("validateFunc", fs[i].id, value, r)]

\* the positions of the entries that are neither falsy nor functions
Unusable(list) == {i \in 1..Len(list) : Truthy(list[i]) /\ list[i].t # "function"}

\* the positions of the entries that are not functions and not absent
\* (undefined, null)
NotInvocable(list) ==
    {i \in 1..Len(list) : list[i].t \notin {"function", "undefined", "null"}}

FirstOf(S) == CHOOSE i \in S : \A j \in S : i <= j

(***************************************************************************)
(* C5: when validatePrimitiveField returns, it has invoked every rule       *)
(* function of the list, in list order, with (object[key], root), without   *)
(* stopping at a violation; errors is the sequence of the violations        *)
(* returned, in list order, and isValid is true iff errors is empty.        *)
(***************************************************************************)
C5_AllRulesInOrder ==
    (CalledPrimitive /\ out.thrown = NoThrow) =>
        /\ out.calls = CallsOf(ListPassed, ValuePassed, root)
        /\ Get(out.value, "errors") = Arr(ViolationsOf(ListPassed, ValuePassed, root))
        /\ Get(out.value, "isValid")
              = Bool(ViolationsOf(ListPassed, ValuePassed, root) = <<>>)

\* a list of two rule functions both of which fail: both ran, both reported
C5_Witness ==
    /\ CalledPrimitive
    /\ out.thrown = NoThrow
    /\ Len(out.calls) = 2
    /\ Len(Get(out.value, "errors").elems) = 2
    /\ Get(out.value, "errors").elems[1] # Get(out.value, "errors").elems[2]

(***************************************************************************)
(* C6 as stated: an entry that is not invocable and not absent (undefined,  *)
(* null) makes validatePrimitiveField raise the configuration error; a list *)
(* of functions and absent entries returns.                                 *)
(***************************************************************************)
C6_NotInvocableRaises ==
    (CalledPrimitive /\ Truthy(object)) =>
        IF NotInvocable(ListPassed) # {}
        THEN out.thrown = ErrNotFunction
        ELSE out.thrown = NoThrow

(***************************************************************************)
(* C6 amended: a truthy entry that is not a function makes                  *)
(* validatePrimitiveField raise "propertyRuleFunc is not a function" when   *)
(* the loop reaches it, after the functions before it have run; every       *)
(* falsy entry (undefined, null, false, 0, "") is skipped silently and      *)
(* contributes neither a call nor a violation.                              *)
(***************************************************************************)
C6_TruthyNonFunctionRaises ==
    (CalledPrimitive /\ Truthy(object)) =>
        IF Unusable(ListPassed) # {}
        THEN /\ out.thrown = ErrNotFunction
             /\ out.value = Undefined
             /\ out.calls = CallsOf(SubSeq(ListPassed, 1, FirstOf(Unusable(ListPassed)) - 1),
                                    ValuePassed, root)
        ELSE /\ out.thrown = NoThrow
             /\ out.calls = CallsOf(ListPassed, ValuePassed, root)
             /\ Get(out.value, "errors")
                   = Arr(ViolationsOf(ListPassed, ValuePassed, root))

\* a list with a null entry, a function and a string: the null was skipped,
\* the function ran, the string raised
C6_Witness ==
    /\ CalledPrimitive
    /\ Truthy(object)
    /\ \E i \in 1..Len(ListPassed) : ListPassed[i] = Null
    /\ Len(out.calls) > 0
    /\ out.thrown = ErrNotFunction

(***************************************************************************)
(* Vocabulary of validateObject(object, root, rule) on a rule-set object.   *)
(***************************************************************************)
CalledObject == op = "validateObject" /\ rule.t = "object"

\* the positions of the declared fields whose rule is truthy and of a type
\* other than object (lists included) and function
InvalidTyped ==
    {i \in 1..Len(rule.props) :
        /\ Truthy(rule.props[i].v)
        /\ TypeOf(rule.props[i].v) \in {"string", "number", "boolean"}}

\* the rule-set of the fields declared before position i
Before(i) == Obj(SubSeq(rule.props, 1, i - 1))

(***************************************************************************)
(* C7 as stated: a (truthy) field rule that is neither a list, an object    *)
(* nor a function makes validateObject raise the invalid-rule-type error    *)
(* naming the rule's type, before any rule function of the rule-set has     *)
(* been invoked.                                                            *)
(***************************************************************************)
C7_RaisedBeforeAnyRule ==
    (CalledObject /\ InvalidTyped # {}) =>
        /\ \E i \in InvalidTyped : out.thrown = ErrInvalidRule(rule.props[i].v)
        /\ out.calls = <<>>

(***************************************************************************)
(* C7 amended: the type of a rule is checked when the key loop reaches its  *)
(* field.  With i the first declared field whose rule is truthy and neither *)
(* a list, an object nor a function: validateObject completes as the        *)
(* validation of the fields declared before i does if that one throws, and  *)
(* otherwise throws "<type> is not a valid rule." for the rule of i, having *)
(* invoked exactly the rule functions of the fields declared before i and   *)
(* none of i or of a later field; no error tree is returned.                *)
(***************************************************************************)
C7_RaisedWhenReached ==
    (CalledObject /\ InvalidTyped # {}) =>
        LET i == FirstOf(InvalidTyped)
            pre == validateObject(object, root, Before(i))
        IN IF pre.thrown # NoThrow
           THEN out = pre
           ELSE /\ out.thrown = ErrInvalidRule(rule.props[i].v)
                /\ out.value = Undefined
                /\ out.calls = pre.calls

\* the invalid-rule-type error raised after rule functions of an earlier
\* field ran
C7_Witness ==
    /\ CalledObject
    /\ InvalidTyped # {}
    /\ out.thrown = ErrInvalidRule(rule.props[FirstOf(InvalidTyped)].v)
    /\ Len(out.calls) > 0

(***************************************************************************)
(* Builders standing as the rule of a declared field.                       *)
(***************************************************************************)
BuilderFields == {i \in 1..Len(rule.props) : rule.props[i].v.t = "function"}

\* what the builder of field i returns for the field's value and the root
Built(i) == Apply(rule.props[i].v.id, FieldOf(object, rule.props[i].k), root)

\* the rule-set with every builder replaced by the rule it returns
Static ==
    Obj([i \in 1..Len(rule.props) |->
            IF i \in BuilderFields
            THEN Prop(rule.props[i].k, Built(i))
            ELSE rule.props[i]])

RuleCalls(c, id) == SelectSeq(c.calls, LAMBDA x : x.at = "rule" /\ x.f = id)

\* the only declared field, for a rule-set of one field
TheKey == rule.props[1].k
TheRule == rule.props[1].v
TheValue == FieldOf(object, TheKey)
OneField == CalledObject /\ Len(rule.props) = 1

\* rule-set { k: builder }
BuilderOnTop == OneField /\ TheRule.t = "function"

\* rule-set { k: { k2: builder } }
BuilderInNested ==
    /\ OneField
    /\ IsNestedRuleSet(TheRule)
    /\ Len(TheRule.props) = 1
    /\ TheRule.props[1].v.t = "function"

\* rule-set { k: { arrayElementRule: { k2: builder } } }
BuilderInElement ==
    /\ OneField
    /\ IsArrayRuleShape(TheRule)
    /\ Len(TheRule.props) = 1
    /\ TheRule.props[1].k = "arrayElementRule"
    /\ IsNestedRuleSet(TheRule.props[1].v)
    /\ Len(TheRule.props[1].v.props) = 1
    /\ TheRule.props[1].v.props[1].v.t = "function"

C9_BuilderOncePerField ==
    /\ BuilderOnTop =>
          RuleCalls(out, TheRule.id) = <<Call("rule", TheRule.id, TheValue, root)>>
    /\ BuilderInNested =>
          LET inner == TheRule.props[1] IN
          RuleCalls(out, inner.v.id) =
              IF TypeOf(TheValue) = "object"
              THEN <<Call("rule", inner.v.id, FieldOf(TheValue, inner.k), root)>>
              ELSE <<>>
    /\ BuilderInElement =>
          LET inner == TheRule.props[1].v.props[1] IN
          RuleCalls(out, inner.v.id) =
              IF IsArray(TheValue)
              THEN [j \in 1..Len(TheValue.elems) |->
                      Call("rule", inner.v.id, FieldOf(TheValue.elems[j], inner.k), root)]
              ELSE <<>>

\* a builder inside a nested object, invoked with a root that is not the
\* nested object
C9_Witness ==
    /\ BuilderInNested
    /\ Len(RuleCalls(out, TheRule.props[1].v.id)) = 1
    /\ IsArray(RuleCalls(out, TheRule.props[1].v.id)[1].value)
    /\ root # TheValue

(***************************************************************************)
(* C10: configuration errors are not caught inside the engine.  A missing   *)
(* rule-set, a truthy non-function entry of the first field's rule list and *)
(* an unsupported type of the first field's rule are raised to the caller;  *)
(* what the validation of a nested object, of an array element or of the    *)
(* array rule a builder returned throws is what the top-level call throws,  *)
(* and no error tree is returned with it.                                   *)
(***************************************************************************)
\* the rule-set applied to element j of an array under element rule er
ElementRuleSet(er, j) ==
    IF er.t = "function" THEN Apply(er.id, TheValue.elems[j], root) ELSE er

\* the elements of the array whose validation throws
ThrowingElements(er) ==
    {j \in 1..Len(TheValue.elems) :
        validateObject(TheValue.elems[j], root, ElementRuleSet(er, j)).thrown # NoThrow}

C10_ConfigErrorsPropagate ==
    /\ op = "validateObject" =>
          /\ ~Truthy(rule) => out = Throw(ErrNoRule, <<>>)
          /\ out.thrown # NoThrow => out.value = Undefined
    /\ (CalledObject /\ Len(rule.props) > 0 /\ Truthy(TheRule)) =>
          /\ (IsArray(TheRule) /\ Unusable(TheRule.elems) # {}) =>
                out.thrown = ErrNotFunction
          /\ TypeOf(TheRule) \in {"string", "number", "boolean"} =>
                out.thrown = ErrInvalidRule(TheRule)
          /\ (IsNestedRuleSet(TheRule) /\ TypeOf(TheValue) = "object") =>
                LET inner == validateObject(TheValue, root, TheRule) IN
                inner.thrown # NoThrow => out = inner
          /\ (/\ IsArrayRuleShape(TheRule)
              /\ ~Truthy(Get(TheRule, "arrayRules"))
              /\ Truthy(Get(TheRule, "arrayElementRule"))
              /\ IsArray(TheValue)) =>
                LET er == Get(TheRule, "arrayElementRule")
                    T == ThrowingElements(er)
                IN T # {} =>
                      out.thrown = validateObject(TheValue.elems[FirstOf(T)], root,
                                                  ElementRuleSet(er, FirstOf(T))).thrown
          /\ (TheRule.t = "function" /\ IsArrayRuleShape(Built(1))) =>
                LET st == validateObject(object, root, Obj(<<Prop(TheKey, Built(1))>>)) IN
                st.thrown # NoThrow => out.thrown = st.thrown

\* a configuration error raised below the top level: the rule-set of an
\* array element is missing
C10_Witness ==
    /\ CalledObject
    /\ Len(rule.props) > 0
    /\ IsArrayRuleShape(TheRule)
    /\ out.thrown = ErrNoRule
    /\ out.value = Undefined

(***************************************************************************)
(* Well-formed rule-sets: every declared rule is a list of functions (with  *)
(* absent entries), an array rule made of such a list and of a well-formed  *)
(* element rule-set or element builder, a nested well-formed rule-set, or a *)
(* builder that returns one of these.  A builder is judged by what it       *)
(* returns on the probe arguments, which reach each of its branches.        *)
(***************************************************************************)
ProbeValues == {Undefined, Good, Bad, Arr(<<>>), Arr(<<Good, Good>>)}
ProbeRoots == {RootA, Undefined, Obj(<<>>)}

WellFormedList(v) ==
    IsArray(v) /\ \A i \in 1..Len(v.elems) : v.elems[i].t \in {"function", "undefined"}

RECURSIVE WellFormedRuleSet(_)
RECURSIVE WellFormedStatic(_)

\* a rule that is not a builder
WellFormedStatic(fr) ==
    CASE IsArray(fr) -> WellFormedList(fr)
      [] IsArrayRuleShape(fr) ->
            /\ HasKey(fr, "arrayRules") => WellFormedList(Get(fr, "arrayRules"))
            /\ HasKey(fr, "arrayElementRule") =>
                  LET er == Get(fr, "arrayElementRule") IN
                  IF er.t = "function"
                  THEN \A v \in ProbeValues, r \in ProbeRoots :
                          WellFormedRuleSet(Apply(er.id, v, r))
                  ELSE WellFormedRuleSet(er)
      [] IsNestedRuleSet(fr) -> WellFormedRuleSet(fr)
      [] OTHER -> FALSE

WellFormedRuleSet(rs) ==
    /\ rs.t = "object"
    /\ \A i \in 1..Len(rs.props) :
          LET fr == rs.props[i].v IN
          IF fr.t = "function"
          THEN \A v \in ProbeValues, r \in ProbeRoots :
                  WellFormedStatic(Apply(fr.id, v, r))
          ELSE WellFormedStatic(fr)

(***************************************************************************)
(* C11: for a well-formed rule-set and any object, validateObject returns:  *)
(* an error tree or undefined, and no error is thrown.                      *)
(***************************************************************************)
C11_ViolationsNeverFatal ==
    (op = "validateObject" /\ WellFormedRuleSet(rule)) =>
        /\ out.thrown = NoThrow
        /\ out.value = Undefined \/ out.value.t = "object"

\* a well-formed array rule met a null element and a failing element, and
\* the failing one is reported
C11_Witness ==
    /\ OneField
    /\ WellFormedRuleSet(rule)
    /\ TheValue = Arr(<<Null, Bad>>)
    /\ out.thrown = NoThrow
    /\ HasKey(out.value, TheKey)

(***************************************************************************)
(* Vocabulary of a rule-set whose only field holds an array rule (a         *)
(* non-list object with keys within arrayRules, arrayElementRule).          *)
(***************************************************************************)
ArrayRuleOnly == OneField /\ IsArrayRuleShape(TheRule)

\* the entry of the field in the returned error tree (undefined if none)
TheEntry == Get(out.value, TheKey)

(***************************************************************************)
(* C12: when the array rule has arrayRules and validateObject returns,      *)
(* arrayErrors is the list of the violations the arrayRules functions       *)
(* return for (whole field value, root), in arrayRules order, one per       *)
(* failing function, and is absent when none fails.                         *)
(***************************************************************************)
C12_ArrayErrorsOfWholeValue ==
    (ArrayRuleOnly /\ out.thrown = NoThrow /\ IsArray(Get(TheRule, "arrayRules"))) =>
        LET v == WholeViolations(TheRule, TheValue, root) IN
        IF v # <<>>
        THEN Get(TheEntry, "arrayErrors") = Arr(v)
        ELSE ~HasKey(TheEntry, "arrayErrors")

\* an empty array under [requiredArray, nonEmpty]: both messages, in order
C12_Witness ==
    /\ ArrayRuleOnly
    /\ out.thrown = NoThrow
    /\ TheValue = Arr(<<>>)
    /\ Get(TheEntry, "arrayErrors") = Arr(<<MsgRequired, MsgEmpty>>)

(***************************************************************************)
(* C13: after validateObject returns for an array under arrayElementRule,   *)
(* arrayElementErrors holds one entry {index, errors, attemptedValue} for   *)
(* exactly the elements whose validation gave an error tree: index is the   *)
(* element's position (from 0), indices strictly ascend, errors is that     *)
(* element's tree and attemptedValue the element itself; elements that pass *)
(* have no entry, and without a failing element the key is absent.          *)
(***************************************************************************)
\* the element rule of the only field, and whether it is to be applied
TheElementRule == Get(TheRule, "arrayElementRule")
ElementsChecked == ArrayRuleOnly /\ Truthy(TheElementRule) /\ IsArray(TheValue)

\* the error tree of element j, validated on its own (undefined if it passes)
ElementTree(j) ==
    validateObject(TheValue.elems[j], root, ElementRuleSet(TheElementRule, j)).value

\* the positions (from 1) of the elements that fail
FailingElements == {j \in 1..Len(TheValue.elems) : Truthy(ElementTree(j))}

PlainArrayRule ==
    /\ ArrayRuleOnly
    /\ HasKey(TheRule, "arrayRules") => WellFormedList(Get(TheRule, "arrayRules"))
    /\ out.thrown = NoThrow

C14_WholeAndElementIndependent ==
    PlainArrayRule =>
        LET wholeFails == WholeViolations(TheRule, TheValue, root) # <<>>
            elementFails == ElementsChecked /\ FailingElements # {}
        IN /\ HasKey(TheEntry, "arrayErrors") <=> wholeFails
           /\ HasKey(TheEntry, "arrayElementErrors") <=> elementFails
           /\ HasKey(out.value, TheKey) <=> (wholeFails \/ elementFails)
           /\ ~IsArray(TheValue) =>
                 \A i \in 1..Len(out.calls) :
                    /\ out.calls[i].at = "validateFunc"
                    /\ out.calls[i].value = TheValue

\* both kinds of error are reported for one array
C14_Witness ==
    /\ PlainArrayRule
    /\ HasKey(TheEntry, "arrayErrors")
    /\ HasKey(TheEntry, "arrayElementErrors")

(***************************************************************************)
(* C15: every rule function, field builder and element builder invoked      *)
(* during a call, at any depth, receives as second argument the root that   *)
(* was passed to that call.                                                 *)
(***************************************************************************)
C15_RootStable ==
    op # "init" => \A i \in 1..Len(out.calls) : out.calls[i].root = root

\* a root other than the object, handed to an element builder and to a rule
\* function applied to an element
C15_Witness ==
    /\ ElementsChecked
    /\ root # object
    /\ \E i, j \in 1..Len(out.calls) :
          /\ out.calls[i].at = "arrayElementRule"
          /\ out.calls[j].at = "validateFunc"
          /\ out.calls[j].value # TheValue
          /\ out.calls[j].root = root

(***************************************************************************)
(* C16: a field under a nested rule-set whose value is not object-typed     *)
(* (undefined, a string, a number) is skipped: it has no entry in the       *)
(* returned error tree, and when it is the only declared field no function  *)
(* is invoked at all.                                                       *)
(***************************************************************************)
\* the declared keys under a nested rule-set whose value is not object-typed
SkippedNested ==
    {k \in DeclaredKeys :
        IsNestedRuleSet(Get(rule, k)) /\ TypeOf(FieldOf(object, k)) # "object"}

C16_NonObjectUnderNestedSkipped ==
    /\ Returned => \A k \in SkippedNested : ~HasKey(out.value, k)
    /\ (OneField /\ SkippedNested # {}) => out = Return(Undefined, <<>>)

\* a string under a nested rule-set whose rules fail on a missing field
C16_Witness ==
    /\ OneField
    /\ TheKey \in SkippedNested
    /\ TypeOf(TheValue) = "string"
    /\ FailsOnMissing(TheRule, root)
    /\ out = Return(Undefined, <<>>)

(***************************************************************************)
(* C17: the result does not depend on the order in which the rule-set       *)
(* declares its fields: for the same object and root, a rule-set of two     *)
(* fields and the rule-set declaring them in the other order both return or *)
(* both throw, and when they return, the same fields fail with the same     *)
(* per-field errors.  The same call made again gives the same completion.   *)
(***************************************************************************)
TwoFields == CalledObject /\ Len(rule.props) = 2 /\ rule.props[1].k # rule.props[2].k

\* the rule-set with its two declarations in the other order
Swapped == Obj(<<rule.props[2], rule.props[1]>>)

WholeCalls ==
    SelectSeq(out.calls, LAMBDA c : c.at = "validateFunc" /\ c.value = TheValue)

C18_WholeRulesOnce ==
    (PlainArrayRule /\ IsArray(Get(TheRule, "arrayRules"))) =>
        WholeCalls = CallsOf(Get(TheRule, "arrayRules").elems, TheValue, root)

(***************************************************************************)
(* C19: a rule-set of one field hands the field to the validator its rule's *)
(* shape selects, and the call completes as that validator does: a list     *)
(* goes to validatePrimitiveField, a non-list object with keys within       *)
(* {arrayRules, arrayElementRule} to validateArrayField, any other object   *)
(* to the recursive validation of the field's value.                        *)
(***************************************************************************)
\* the object whose fields are read: {} stands for a falsy object
TheObject == IF Truthy(object) THEN object ELSE Obj(<<>>)

\* what the call completes with when a validator's completion res reports
\* errs for the only field (failed) or nothing
AsField(res, failed, errs) ==
    IF res.thrown # NoThrow
    THEN Throw(res.thrown, res.calls)
    ELSE Return(IF failed THEN Obj(<<Prop(TheKey, errs)>>) ELSE Undefined, res.calls)

ByPrimitive ==
    LET res == validatePrimitiveField(TheKey, TheObject, root, TheRule)
        ok == res.thrown = NoThrow
    IN AsField(res, IF ok THEN ~Get(res.value, "isValid").b ELSE FALSE,
               IF ok THEN Get(res.value, "errors") ELSE Undefined)

ByArray ==
    LET res == validateArrayField(TheKey, TheObject, root, TheRule)
    IN AsField(res,
               Truthy(Get(res.value, "arrayErrors"))
                   \/ Truthy(Get(res.value, "arrayElementErrors")),
               res.value)

ByNested ==
    LET res == validateObject(TheValue, root, TheRule)
    IN AsField(res, Truthy(res.value), res.value)

\* as claimed: a nested rule-set is always validated against the value
C19_EveryRuleDispatched ==
    OneField =>
        /\ IsArray(TheRule) => out = ByPrimitive
        /\ IsArrayRuleShape(TheRule) => out = ByArray
        /\ IsNestedRuleSet(TheRule) => out = ByNested

(***************************************************************************)
(* C19 (amended): as above, but a nested rule-set is validated against the  *)
(* field's value only when that value is object-typed; otherwise the field  *)
(* goes to no validator, nothing is invoked and nothing is reported.        *)
(***************************************************************************)
C19_DispatchByShape ==
    OneField =>
        /\ IsArray(TheRule) => out = ByPrimitive
        /\ IsArrayRuleShape(TheRule) => out = ByArray
        /\ IsNestedRuleSet(TheRule) =>
              out = IF TypeOf(TheValue) = "object"
                    THEN ByNested
                    ELSE Return(Undefined, <<>>)

\* a rule-set with the key arrayRules and another key is taken as nested,
\* and its field name is reported for the nested object
C19_Witness ==
    /\ OneField
    /\ IsNestedRuleSet(TheRule)
    /\ HasKey(TheRule, "arrayRules")
    /\ TypeOf(TheValue) = "object"
    /\ out.thrown = NoThrow
    /\ HasKey(Get(out.value, TheKey), "name")

(***************************************************************************)
(* C20: under arrayElementRule the elements are validated in index order,   *)
(* each against its own rule-set: a function is invoked once per element    *)
(* with (element, root), just before that element is validated against the  *)
(* rule-set it returned; a static rule-set is applied to every element.     *)
(* Each reported entry carries the errors of its element under that         *)
(* element's rule-set.                                                      *)
(***************************************************************************)
\* the invocations owed to the elements from position j on
RECURSIVE ElementCalls(_)
ElementCalls(j) ==
    IF j > Len(TheValue.elems)
    THEN <<>>
    ELSE (IF TheElementRule.t = "function"
          THEN <<Call("arrayElementRule", TheElementRule.id, TheValue.elems[j], root)>>
          ELSE <<>>)
         \o validateObject(TheValue.elems[j], root,
                           ElementRuleSet(TheElementRule, j)).calls
         \o ElementCalls(j + 1)

C20_ElementRulePerElement ==
    (ElementsChecked /\ PlainArrayRule) =>
        /\ SelectSeq(out.calls, LAMBDA c : c.value # TheValue) = ElementCalls(1)
        /\ LET entries == Get(TheEntry, "arrayElementErrors") IN
           \A i \in 1..LengthOf(entries) :
              Get(entries.elems[i], "errors")
                  = ElementTree(Get(entries.elems[i], "index").n + 1)

\* a builder returned different rule-sets for the two elements of an array
C20_Witness ==
    /\ ElementsChecked
    /\ PlainArrayRule
    /\ TheElementRule.t = "function"
    /\ Len(TheValue.elems) = 2
    /\ ElementRuleSet(TheElementRule, 1) # ElementRuleSet(TheElementRule, 2)
    /\ Len(SelectSeq(out.calls, LAMBDA c : c.at = "arrayElementRule")) = 2

(***************************************************************************)
(* C21: a field under a nested rule-set whose value is null is validated    *)
(* as the empty object: the call completes as the validation of {} against  *)
(* the nested rule-set does, so nested rules that fail on an absent value   *)
(* are reported under the field.  An undefined value for the same field is  *)
(* skipped: nothing is invoked and nothing is reported.                     *)
(***************************************************************************)
NestedOnly == OneField /\ IsNestedRuleSet(TheRule)

\* some list or array rule that the nested rule-set rs declares itself
\* returns a violation for an absent value
FailsOnAbsent(rs, r) ==
    \E i \in 1..Len(rs.props) :
        LET fr == rs.props[i].v IN
        \/ IsArray(fr) /\ ViolationsOf(fr.elems, Undefined, r) # <<>>
        \/ IsArrayRuleShape(fr) /\ WholeViolations(fr, Undefined, r) # <<>>

\* what the call completes with when the field is validated as {}
AsEmptyObject ==
    LET res == validateObject(Obj(<<>>), root, TheRule)
    IN AsField(res, Truthy(res.value), res.value)

C21_NullAsEmptyObject ==
    NestedOnly =>
        /\ TheValue = Null =>
              /\ out = AsEmptyObject
              /\ (out.thrown = NoThrow /\ FailsOnAbsent(TheRule, root)) =>
                    \A i \in 1..Len(TheRule.props) :
                       LET k == TheRule.props[i].k
                           fr == TheRule.props[i].v
                       IN /\ IsArray(fr) /\ ViolationsOf(fr.elems, Undefined, root) # <<>>
                             => Get(TheEntry, k) = Arr(ViolationsOf(fr.elems, Undefined, root))
                          /\ IsArrayRuleShape(fr) /\ WholeViolations(fr, Undefined, root) # <<>>
                             => Get(Get(TheEntry, k), "arrayErrors")
                                   = Arr(WholeViolations(fr, Undefined, root))
        /\ TheValue = Undefined => out = Return(Undefined, <<>>)

\* a null field under a nested rule-set whose rule fails on an absent value
C21_Witness ==
    /\ NestedOnly
    /\ TheValue = Null
    /\ HasKey(object, TheKey)
    /\ FailsOnAbsent(TheRule, root)
    /\ out.thrown = NoThrow
    /\ HasKey(out.value, TheKey)
    /\ out.calls # <<>>

(***************************************************************************)
(* C22: only a truthy return value of a rule function is a violation: the   *)
(* errors list holds the truthy return values, in order, and none of        *)
(* "", 0, false, null, undefined; isValid is true exactly when no function  *)
(* returned a truthy value; and a field under a list of rule functions      *)
(* appears in the error tree exactly when some function invoked returned a  *)
(* truthy value.                                                            *)
(***************************************************************************)
FalsyReturns == {Undefined, Null, Str(""), Num(0), Bool(FALSE)}

\* what invocation c of a rule function returned
ReturnOf(c) == Apply(c.f, c.value, c.root)

\* some invocation of the completion returned a value that is not falsy
SomeTruthyReturn ==
    \E i \in 1..Len(out.calls) : ReturnOf(out.calls[i]) \notin FalsyReturns

C22_OnlyTruthyIsViolation ==
    /\ (op = "validatePrimitiveField" /\ out.thrown = NoThrow) =>
          LET errors == Get(out.value, "errors").elems
              returned == [i \in 1..Len(out.calls) |-> ReturnOf(out.calls[i])]
          IN /\ errors = SelectSeq(returned, LAMBDA v : v \notin FalsyReturns)
             /\ Get(out.value, "isValid") = Bool(~SomeTruthyReturn)
    /\ (OneField /\ IsArray(TheRule) /\ out.thrown = NoThrow) =>
          (HasKey(out.value, TheKey) <=> SomeTruthyReturn)

\* a rule function returned a falsy value other than undefined, no other
\* function failed, and the field is valid
C22_Witness ==
    /\ op = "validatePrimitiveField"
    /\ out.thrown = NoThrow
    /\ \E i \in 1..Len(out.calls) :
          ReturnOf(out.calls[i]) \in FalsyReturns \ {Undefined}
    /\ Get(out.value, "errors") = Arr(<<>>)
    /\ Get(out.value, "isValid") = Bool(TRUE)
====
